---- MODULE Spec2Model ----
(***************************************************************************)
(* Model of couchbase/src/bucket.rs: the Bucket that owns a libcouchbase   *)
(* instance behind a mutex, the "io" thread that pumps lcb_wait on demand  *)
(* (park/unpark), the five submit methods, the five response callbacks and *)
(* Drop for Bucket.                                                        *)
(*                                                                         *)
(* Threads: the application threads of Submitters, the io thread, and the  *)
(* thread that drops the Bucket.  Drop takes &mut self, so it starts only  *)
(* when no submit method is executing and no submit starts after it.       *)
(***************************************************************************)
EXTENDS Naturals, Sequences, FiniteSets

\* ---------------------------------------------------------------- bounds
\* Number of operations submitted over the life of the Bucket.
MaxOps == 2
\* Largest number of non-final rows the engine delivers for one query.
MaxRows == 2
\* Number of times drop is run on the same Bucket where a caller bypasses the
\* language's single drop.
MaxDrops == 2

OpIds == 1..MaxOps

\* ------------------------------------------------------- fixed small sets
Submitters == {"s1", "s2"}
NoThread == "none"
IoThread == "io"
DropThread == "dropper"

KvKinds == {"get", "store", "remove"}
StreamKinds == {"n1ql", "view"}
\* Document ids come from a Rust String, so they are valid UTF-8, and the
\* engine echoes the key of the command in its response.  Each application
\* thread works on a document of its own.
Keys == {"k1", "k2"}
KeyOf(t) == IF t = "s1" THEN {"k1"} ELSE {"k2"}
NoKey == "-"
Statuses == {"LCB_SUCCESS", "LCB_KEY_EEXISTS"}
CasValues == {"c1"}
\* A panic inside an extern "C" callback: the build either aborts the
\* process or unwinds through the engine's frames into the io thread.
PanicOutcomes == {"abort", "unwind"}
\* How a callback invocation ends.
Outcomes == PanicOutcomes \cup {"return"}

VARIABLES
    opKind,        \* op -> kind of the command ("none": not yet created)
    opKey,         \* op -> document id of the command
    cookie,        \* op -> "none" | "boxed" | "armed" | "released": the boxed Sender
    queued,        \* ops scheduled in the engine whose last response is outstanding
    invoked,       \* op -> sequence of responses the engine passed to its callback
    chan,          \* op -> sequence of results written into the channel
    rxAlive,       \* op -> the receiving side (future / stream) still exists
    pc,            \* submitter -> position inside a submit method
    cur,           \* submitter -> op it is submitting (0: none)
    instance_lock, \* holder of Bucket.instance (Mutex<SendPtr<lcb_t>>)
    inner,         \* SendPtr.inner is Some
    io_handle_lock,\* holder of Bucket.io_handle (Mutex<Option<JoinHandle>>)
    io_handle,     \* the Option<JoinHandle> is Some
    io_running,    \* AtomicBool
    park_token,    \* the io thread's park/unpark token
    io_pc,         \* position of the io thread
    drop_pc,       \* position of Drop for Bucket
    drop_log,      \* the steps Drop has performed, in order
    destroyed,     \* lcb_destroy has been called on the handle
    aborted,       \* the process has aborted
    new_pc,        \* position inside Bucket::new
    cntl_res,      \* what lcb_cntl returned to Bucket::new
    boot_result,   \* what lcb_get_bootstrap_status returned to Bucket::new
    installed,     \* callback type -> number of lcb_install_callback3 calls
    new_result     \* what Bucket::new returned

vars == <<opKind, opKey, cookie, queued, invoked, chan, rxAlive, pc, cur,
          instance_lock, inner, io_handle_lock, io_handle, io_running,
          park_token, io_pc, drop_pc, drop_log, destroyed, aborted,
          new_pc, cntl_res, boot_result, installed, new_result>>

opVars == <<opKind, opKey, cookie, queued, invoked, chan, rxAlive>>
ioVars == <<io_running, park_token, io_pc>>
dropVars == <<drop_pc, drop_log, destroyed>>
newVars == <<new_pc, cntl_res, boot_result, installed, new_result>>

\* The callback types Bucket::new installs on the instance.
CallbackTypes == {"LCB_CALLBACK_GET", "LCB_CALLBACK_STORE", "LCB_CALLBACK_REMOVE"}
\* What lcb_cntl and lcb_get_bootstrap_status can report.
CntlStatuses == {"LCB_SUCCESS", "LCB_NOT_SUPPORTED"}
BootStatuses == {"LCB_SUCCESS", "LCB_AUTH_ERROR"}
NotRead == "-"
\* Bucket::new has not returned / returned Ok(Bucket) / returned Err(rc.into()).
NotReturned == [tag |-> "none", rc |-> NotRead]
OkBucket == [tag |-> "Ok", rc |-> NotRead]
ErrOf(rc) == [tag |-> "Err", rc |-> rc]

\* State right after Bucket::new returned Ok: callbacks installed, the io
\* thread spawned and about to park, no command submitted yet.
Init ==
    /\ opKind = [o \in OpIds |-> "none"]
    /\ opKey = [o \in OpIds |-> NoKey]
    /\ cookie = [o \in OpIds |-> "none"]
    /\ queued = {}
    /\ invoked = [o \in OpIds |-> <<>>]
    /\ chan = [o \in OpIds |-> <<>>]
    /\ rxAlive = [o \in OpIds |-> FALSE]
    /\ pc = [t \in Submitters |-> "idle"]
    /\ cur = [t \in Submitters |-> 0]
    /\ instance_lock = NoThread
    /\ inner = TRUE
    /\ io_handle_lock = NoThread
    /\ io_handle = TRUE
    /\ io_running = TRUE
    /\ park_token = FALSE
    /\ io_pc = "park"
    /\ drop_pc = "live"
    /\ drop_log = <<>>
    /\ destroyed = FALSE
    /\ aborted = FALSE
    /\ new_pc = "returned"
    /\ cntl_res = "LCB_SUCCESS"
    /\ boot_result = "LCB_SUCCESS"
    /\ installed = [c \in CallbackTypes |-> 1]
    /\ new_result = OkBucket

\* ------------------------------------------------------------ primitives
\* Mutant: a lock that never excludes anybody.
MutexNeverExcludes(holder) == TRUE

\* parking_lot::Mutex::lock succeeds only when nobody holds the mutex.
MutexFree(holder) == holder = NoThread

\* Mutant: the wake-up is dropped.
UnparkLost(token) == token

\* Thread::unpark: makes the token available; it is not counted.
Unpark(token) == TRUE

\* Mutant: the option is read without the check (unwrap_unchecked).
UnwrapUnchecked(present) == TRUE

\* Option::unwrap: succeeds iff the option is Some.
Unwrap(present) == present

NewOp == CHOOSE o \in OpIds : opKind[o] = "none" /\ \A p \in OpIds : opKind[p] = "none" => o <= p

\* ------------------------------------------------------- submit methods
\* The part of a submit method before the instance lock: channel()/unbounded(),
\* the command structure, Box::new(tx).  The methods take &self: there is a
\* Bucket only once Bucket::new has returned Ok.
Begin(t, kind, key) ==
    /\ ~aborted
    /\ new_result = OkBucket
    /\ pc[t] = "idle"
    /\ \E o \in OpIds : opKind[o] = "none"
    /\ LET o == NewOp IN
        /\ opKind' = [opKind EXCEPT ![o] = kind]
        /\ opKey' = [opKey EXCEPT ![o] = key]
        /\ cookie' = [cookie EXCEPT ![o] = "boxed"]
        /\ rxAlive' = [rxAlive EXCEPT ![o] = TRUE]
        /\ cur' = [cur EXCEPT ![t] = o]
    /\ pc' = [pc EXCEPT ![t] = "lock"]
    /\ UNCHANGED <<newVars, queued, invoked, chan, instance_lock, inner, io_handle_lock,
                   io_handle, ioVars, dropVars, aborted>>

\* Drop takes &mut self: a submit method starts only on a live Bucket.
get(t, key) == drop_pc = "live" /\ Begin(t, "get", key)
remove(t, key) == drop_pc = "live" /\ Begin(t, "remove", key)
store(t, key) == drop_pc = "live" /\ Begin(t, "store", key)
query_n1ql(t) == drop_pc = "live" /\ Begin(t, "n1ql", NoKey)
query_view(t) == drop_pc = "live" /\ Begin(t, "view", NoKey)

\* let guard = self.instance.lock(); let instance = guard.inner.unwrap();
\* A failed unwrap panics the calling thread: the guard and the boxed Sender
\* are dropped by the unwinding, the receiver with the method's frame.
lock_instance(t) ==
    /\ ~aborted
    /\ pc[t] = "lock"
    /\ MutexFree(instance_lock)
    /\ IF Unwrap(inner)
         THEN /\ instance_lock' = t
              /\ pc' = [pc EXCEPT ![t] = "call"]
              /\ UNCHANGED <<cookie, rxAlive, cur>>
         ELSE /\ instance_lock' = NoThread
              /\ pc' = [pc EXCEPT ![t] = "panicked"]
              /\ cookie' = [cookie EXCEPT ![cur[t]] = "released"]
              /\ rxAlive' = [rxAlive EXCEPT ![cur[t]] = FALSE]
              /\ cur' = [cur EXCEPT ![t] = 0]
    /\ UNCHANGED <<newVars, opKind, opKey, queued, invoked, chan, inner, io_handle_lock,
                   io_handle, ioVars, dropVars, aborted>>

\* Mutant: the guard lives on past the unsafe block, into unpark_io.
GuardKept(t) == t

\* The guard is a local of the unsafe block: it is dropped, and the instance
\* lock released, at the end of the block.
GuardDropped(t) == NoThread

\* lcb_get3 / lcb_remove3 / lcb_store3 / lcb_n1ql_query / lcb_view_query with
\* Box::into_raw(tx_boxed) as the cookie; the guard is dropped at the end of
\* the unsafe block.
engine_submit(t) ==
    /\ ~aborted
    /\ pc[t] = "call"
    /\ queued' = queued \cup {cur[t]}
    /\ cookie' = [cookie EXCEPT ![cur[t]] = "armed"]
    /\ instance_lock' = GuardDropped(t)
    /\ pc' = [pc EXCEPT ![t] = "unpark"]
    /\ UNCHANGED <<newVars, opKind, opKey, invoked, chan, rxAlive, cur, inner,
                   io_handle_lock, io_handle, ioVars, dropVars, aborted>>

\* unpark_io: let guard = self.io_handle.lock();
unpark_io_lock(t) ==
    /\ ~aborted
    /\ pc[t] = "unpark"
    /\ MutexFree(io_handle_lock)
    /\ io_handle_lock' = t
    /\ pc' = [pc EXCEPT ![t] = "unparking"]
    /\ UNCHANGED <<newVars, opVars, cur, instance_lock, inner, io_handle, ioVars,
                   dropVars, aborted>>

\* unpark_io: guard.as_ref().unwrap().thread().unpark(); then the method
\* returns the future / stream.
unpark_io(t) ==
    /\ ~aborted
    /\ pc[t] = "unparking"
    /\ io_handle_lock' = NoThread
    /\ IF Unwrap(io_handle)
         THEN /\ park_token' = Unpark(park_token)
              /\ pc' = [pc EXCEPT ![t] = "idle"]
              /\ UNCHANGED rxAlive
         ELSE /\ pc' = [pc EXCEPT ![t] = "panicked"]
              /\ rxAlive' = [rxAlive EXCEPT ![cur[t]] = FALSE]
              /\ UNCHANGED park_token
    /\ cur' = [cur EXCEPT ![t] = 0]
    /\ UNCHANGED <<newVars, opKind, opKey, cookie, queued, invoked, chan, instance_lock,
                   inner, io_handle, io_running, io_pc, dropVars, aborted>>

\* ------------------------------------------------------------ io thread
\* park(): returns when the token is available and consumes it.
io_park ==
    /\ ~aborted
    /\ io_pc = "park"
    /\ park_token
    /\ park_token' = FALSE
    /\ io_pc' = "check"
    /\ UNCHANGED <<newVars, opVars, pc, cur, instance_lock, inner, io_handle_lock,
                   io_handle, io_running, dropVars, aborted>>

\* park() may also return spuriously, without a token.
io_park_spurious ==
    /\ ~aborted
    /\ io_pc = "park"
    /\ ~park_token
    /\ io_pc' = "check"
    /\ UNCHANGED <<newVars, opVars, pc, cur, instance_lock, inner, io_handle_lock,
                   io_handle, io_running, park_token, dropVars, aborted>>

\* Mutant: the loop does not look at the flag.
StillRunningIgnored(flag) == TRUE

\* still_running.load(Ordering::Acquire)
StillRunning(flag) == flag

\* if !still_running.load(Ordering::Acquire) { break; }
io_check ==
    /\ ~aborted
    /\ io_pc = "check"
    /\ io_pc' = IF StillRunning(io_running) THEN "lock" ELSE "stopped"
    /\ UNCHANGED <<newVars, opVars, pc, cur, instance_lock, inner, io_handle_lock,
                   io_handle, io_running, park_token, dropVars, aborted>>

\* let guard = io_instance.lock(); let instance = guard.inner.unwrap();
io_lock ==
    /\ ~aborted
    /\ io_pc = "lock"
    /\ MutexFree(instance_lock)
    /\ IF Unwrap(inner)
         THEN instance_lock' = IoThread /\ io_pc' = "wait"
         ELSE instance_lock' = NoThread /\ io_pc' = "panicked"
    /\ UNCHANGED <<newVars, opVars, pc, cur, inner, io_handle_lock, io_handle,
                   io_running, park_token, dropVars, aborted>>

\* lcb_wait returns once no scheduled command has a response outstanding;
\* the guard is dropped at the end of the loop body and the thread parks.
io_wait_return ==
    /\ ~aborted
    /\ io_pc = "wait"
    /\ queued = {}
    /\ instance_lock' = NoThread
    /\ io_pc' = "park"
    /\ UNCHANGED <<newVars, opVars, pc, cur, inner, io_handle_lock, io_handle,
                   io_running, park_token, dropVars, aborted>>

\* ----------------------------------------------------- results written
Document(id, cas) == [tag |-> "Document", id |-> id, cas |-> cas, rc |-> "-", row |-> 0]
Unit == [tag |-> "Unit", id |-> NoKey, cas |-> "-", rc |-> "-", row |-> 0]
Error(rc) == [tag |-> "Error", id |-> NoKey, cas |-> "-", rc |-> rc, row |-> 0]
Row(n) == [tag |-> "Row", id |-> NoKey, cas |-> "-", rc |-> "-", row |-> n]
Meta == [tag |-> "Meta", id |-> NoKey, cas |-> "-", rc |-> "-", row |-> 0]

\* What the engine handed to a callback: the status, the version token, the
\* final flag, whether the payload bytes decode (UTF-8 / JSON), the number of
\* the row, and whether the receiving side still existed at that moment.
Response(rc, cas, final, valid, n, rx) ==
    [rc |-> rc, cas |-> cas, final |-> final, valid |-> valid, row |-> n, rx |-> rx]

\* Mutant: the status is not matched on, every response yields a document.
DocumentWhateverStatus(rc, key, cas) == Document(key, cas)

\* match res.rc { LCB_SUCCESS => Ok(Document::from_vec_with_cas(id, .., cas)),
\*                rc => Err(rc.into()) }
DocumentResult(rc, key, cas) ==
    IF rc = "LCB_SUCCESS" THEN Document(key, cas) ELSE Error(rc)

\* match (*res).rc { LCB_SUCCESS => Ok(()), rc => Err(rc.into()) }
RemoveResult(rc) ==
    IF rc = "LCB_SUCCESS" THEN Unit ELSE Error(rc)

\* oneshot Sender::complete / UnboundedSender::send on a channel whose
\* receiver exists: the item is queued behind the earlier ones.
Send(ch, item) == Append(ch, item)

\* Mutant: the single-shot callback hands the Box back to the engine, as the
\* row callbacks do.
CookieRearmedAfterComplete == "armed"

\* tx.complete(result) consumes the Sender: the Box is dropped when the
\* callback returns.
CookieAfterComplete == "released"

\* if more_to_come { Box::into_raw(tx); }
CookieAfterSend(more_to_come) == IF more_to_come THEN "armed" ELSE "released"

\* ------------------------------------------------------------ callbacks
\* The engine invokes callbacks only from inside lcb_wait, on the io thread.
\* The version token accompanies a successful response only.
NoCas == "-"
\* The row callbacks never read the status of the response.
NoStatus == "-"
CasOf(rc) == IF rc = "LCB_SUCCESS" THEN CasValues ELSE {NoCas}

\* String::from_utf8 on the key the engine echoes: the ids of Keys are UTF-8.
IsUtf8(key) == key \in Keys

\* Mutant: the cookie leads to the Sender of another operation.
BridgeOfSibling(o) == (o % MaxOps) + 1

\* Box::from_raw(res.cookie as FutureSender<..> / StreamSender<..>): the cookie
\* the engine hands back is the pointer Box::into_raw made in the submit
\* method of that command, so it leads to the Sender created there.
BridgeOf(o) == o

\* A panic inside a callback (a failed expect) either aborts the process or
\* unwinds: the Box and the io thread's guard are dropped by the unwinding and
\* the io thread ends.  The engine has passed resp to the callback.
callback_panic(o, resp, outcome) ==
    /\ outcome \in PanicOutcomes
    /\ invoked' = [invoked EXCEPT ![o] = Append(@, resp)]
    /\ aborted' = (outcome = "abort")
    /\ io_pc' = IF outcome = "unwind" THEN "panicked" ELSE io_pc
    /\ instance_lock' = IF outcome = "unwind" THEN NoThread ELSE instance_lock
    /\ cookie' = [cookie EXCEPT ![o] = IF outcome = "unwind" THEN "released" ELSE @]
    /\ UNCHANGED <<newVars, opKind, opKey, queued, chan, rxAlive, pc, cur, inner,
                   io_handle_lock, io_handle, io_running, park_token, dropVars>>

\* Box::from_raw(cookie); ...; tx.complete(result): the single write of a
\* single-shot bridge.  complete() ignores a receiver that is gone.
complete(o, resp, result) ==
    /\ invoked' = [invoked EXCEPT ![o] = Append(@, resp)]
    /\ chan' = [chan EXCEPT ![BridgeOf(o)] =
                    IF rxAlive[BridgeOf(o)] THEN Send(@, result) ELSE @]
    /\ cookie' = [cookie EXCEPT ![o] = CookieAfterComplete]
    /\ queued' = queued \ {o}
    /\ UNCHANGED <<newVars, opKind, opKey, rxAlive, pc, cur, instance_lock, inner,
                   io_handle_lock, io_handle, ioVars, dropVars, aborted>>

\* get_callback / store_callback: on LCB_SUCCESS the echoed key is decoded
\* with expect, which panics on bytes that are not UTF-8.
document_callback(o, rc, cas, outcome) ==
    /\ ~aborted
    /\ io_pc = "wait"
    /\ o \in queued
    /\ LET resp == Response(rc, cas, TRUE, IsUtf8(opKey[o]), 0, rxAlive[o])
       IN IF rc = "LCB_SUCCESS" /\ ~IsUtf8(opKey[o])
            THEN callback_panic(o, resp, outcome)
            ELSE outcome = "return" /\ complete(o, resp, DocumentResult(rc, opKey[o], cas))

get_callback(o, rc, cas, outcome) ==
    opKind[o] = "get" /\ document_callback(o, rc, cas, outcome)

store_callback(o, rc, cas, outcome) ==
    opKind[o] = "store" /\ document_callback(o, rc, cas, outcome)

remove_callback(o, rc, cas) ==
    /\ opKind[o] = "remove"
    /\ ~aborted
    /\ io_pc = "wait"
    /\ o \in queued
    /\ complete(o, Response(rc, cas, TRUE, TRUE, 0, rxAlive[o]), RemoveResult(rc))

\* A row callback panics when the payload does not decode (expect on
\* String::from_utf8 / serde_json::from_slice) and when send() fails because
\* the receiver is gone (expect on tx.send).
RowCallbackPanics(valid, rx) == ~valid \/ ~rx

\* n1ql_callback / view_callback: Box::from_raw(cookie); decode; send; re-arm
\* the cookie unless the final flag is set.  The engine delivers at most
\* MaxRows rows before the final response.
row_callback(o, final, valid, outcome) ==
    /\ ~aborted
    /\ io_pc = "wait"
    /\ o \in queued
    /\ final \/ Len(invoked[o]) < MaxRows
    /\ LET n == Len(invoked[o]) + 1
           more_to_come == ~final
           resp == Response(NoStatus, NoCas, final, valid, n, rxAlive[o])
       IN IF RowCallbackPanics(valid, rxAlive[o])
            THEN callback_panic(o, resp, outcome)
            ELSE /\ outcome = "return"
                 /\ invoked' = [invoked EXCEPT ![o] = Append(@, resp)]
                 /\ chan' = [chan EXCEPT ![BridgeOf(o)] =
                                 Send(@, IF more_to_come THEN Row(n) ELSE Meta)]
                 /\ cookie' = [cookie EXCEPT ![o] = CookieAfterSend(more_to_come)]
                 /\ queued' = IF more_to_come THEN queued ELSE queued \ {o}
                 /\ UNCHANGED <<newVars, opKind, opKey, rxAlive, pc, cur, instance_lock, inner,
                                io_handle_lock, io_handle, ioVars, dropVars, aborted>>

n1ql_callback(o, final, valid, outcome) ==
    opKind[o] = "n1ql" /\ row_callback(o, final, valid, outcome)

view_callback(o, final, valid, outcome) ==
    opKind[o] = "view" /\ row_callback(o, final, valid, outcome)

\* The caller drops the CouchbaseFuture / CouchbaseStream a submit method
\* returned to it, while the operation is outstanding (afterwards no callback
\* can observe whether the receiver exists).
drop_receiver(o) ==
    /\ ~aborted
    /\ rxAlive[o]
    /\ cookie[o] = "armed"
    /\ \A t \in Submitters : cur[t] # o
    /\ rxAlive' = [rxAlive EXCEPT ![o] = FALSE]
    /\ UNCHANGED <<newVars, opKind, opKey, cookie, queued, invoked, chan, pc, cur,
                   instance_lock, inner, io_handle_lock, io_handle, ioVars,
                   dropVars, aborted>>

\* ------------------------------------------------------- Drop for Bucket
\* Mutant: the io thread is not waited for.
JoinDoesNotWait(p) == TRUE

\* JoinHandle::join returns once the io thread has ended.
JoinReturns(p) == p \in {"stopped", "panicked"}

\* Mutant: the handle is read without being taken out of the wrapper.
InnerLeftInPlace == TRUE

\* guard.inner.take(): the wrapper holds no handle afterwards.
InnerAfterTake == FALSE

\* self.io_running.clone().store(false, Ordering::Release);
drop_store ==
    /\ ~aborted
    /\ new_result = OkBucket
    /\ drop_pc = "live"
    /\ \A t \in Submitters : pc[t] \in {"idle", "panicked"}
    /\ io_running' = FALSE
    /\ drop_pc' = "unpark"
    /\ drop_log' = Append(drop_log, "clear_flag")
    /\ UNCHANGED <<newVars, opVars, pc, cur, instance_lock, inner, io_handle_lock,
                   io_handle, park_token, io_pc, destroyed, aborted>>

\* self.unpark_io(); a failed unwrap panics out of drop.
drop_unpark ==
    /\ ~aborted
    /\ drop_pc = "unpark"
    /\ MutexFree(io_handle_lock)
    /\ IF Unwrap(io_handle)
         THEN /\ park_token' = Unpark(park_token)
              /\ drop_pc' = "take"
              /\ drop_log' = Append(drop_log, "wake")
         ELSE /\ drop_pc' = "panicked"
              /\ UNCHANGED <<park_token, drop_log>>
    /\ UNCHANGED <<newVars, opVars, pc, cur, instance_lock, inner, io_handle_lock,
                   io_handle, io_running, io_pc, destroyed, aborted>>

\* let mut unlocked_handle = self.io_handle.lock(); unlocked_handle.take().unwrap()
drop_take_handle ==
    /\ ~aborted
    /\ drop_pc = "take"
    /\ MutexFree(io_handle_lock)
    /\ IF Unwrap(io_handle)
         THEN io_handle_lock' = DropThread /\ drop_pc' = "join"
         ELSE io_handle_lock' = NoThread /\ drop_pc' = "panicked"
    /\ io_handle' = FALSE
    /\ UNCHANGED <<newVars, opVars, pc, cur, instance_lock, inner, ioVars, drop_log,
                   destroyed, aborted>>

\* .join().unwrap(): blocks until the io thread has ended; join of a thread
\* that panicked is Err, and the unwrap panics out of drop.
drop_join ==
    /\ ~aborted
    /\ drop_pc = "join"
    /\ JoinReturns(io_pc)
    /\ IF io_pc = "panicked"
         THEN /\ drop_pc' = "panicked"
              /\ io_handle_lock' = NoThread
              /\ UNCHANGED drop_log
         ELSE /\ drop_pc' = "lock"
              /\ drop_log' = Append(drop_log, "join")
              /\ UNCHANGED io_handle_lock
    /\ UNCHANGED <<newVars, opVars, pc, cur, instance_lock, inner, io_handle, ioVars,
                   destroyed, aborted>>

\* let mut guard = self.instance.lock(); let instance = guard.inner.take().unwrap();
drop_lock_instance ==
    /\ ~aborted
    /\ drop_pc = "lock"
    /\ MutexFree(instance_lock)
    /\ inner' = InnerAfterTake
    /\ IF Unwrap(inner)
         THEN /\ instance_lock' = DropThread
              /\ drop_pc' = "destroy"
              /\ UNCHANGED io_handle_lock
         ELSE /\ instance_lock' = NoThread
              /\ io_handle_lock' = NoThread
              /\ drop_pc' = "panicked"
    /\ UNCHANGED <<newVars, opVars, pc, cur, io_handle, ioVars,
                   drop_log, destroyed, aborted>>

\* unsafe { lcb_destroy(instance) }; both guards are dropped when drop returns.
\* The engine invokes no callback for the commands still scheduled.
drop_destroy ==
    /\ ~aborted
    /\ drop_pc = "destroy"
    /\ destroyed' = TRUE
    /\ drop_log' = Append(drop_log, "destroy")
    /\ instance_lock' = NoThread
    /\ io_handle_lock' = NoThread
    /\ drop_pc' = "done"
    /\ UNCHANGED <<newVars, opVars, pc, cur, inner, io_handle, ioVars, aborted>>

\* The number of times drop has been entered.
DropCount == Cardinality({i \in 1..Len(drop_log) : drop_log[i] = "clear_flag"})

\* drop run once more on a Bucket whose drop has returned (ptr::drop_in_place
\* or ManuallyDrop::drop called twice, which safe code cannot do): it starts
\* again with self.io_running.clone().store(false, Ordering::Release).
drop_again ==
    /\ ~aborted
    /\ drop_pc = "done"
    /\ DropCount < MaxDrops
    /\ io_running' = FALSE
    /\ drop_pc' = "unpark"
    /\ drop_log' = Append(drop_log, "clear_flag")
    /\ UNCHANGED <<newVars, opVars, pc, cur, instance_lock, inner, io_handle_lock,
                   io_handle, park_token, io_pc, destroyed, aborted>>

\* ----------------------------------------------------------- Bucket::new
\* Mutant: the status is not looked at.
NeverFailed(res) == FALSE

\* if cntl_res != LCB_SUCCESS / if boot_result != LCB_SUCCESS
Failed(res) == res # "LCB_SUCCESS"

\* State at the call of Bucket::new: no instance, no wrapper, no io thread.
InitNew ==
    /\ opKind = [o \in OpIds |-> "none"]
    /\ opKey = [o \in OpIds |-> NoKey]
    /\ cookie = [o \in OpIds |-> "none"]
    /\ queued = {}
    /\ invoked = [o \in OpIds |-> <<>>]
    /\ chan = [o \in OpIds |-> <<>>]
    /\ rxAlive = [o \in OpIds |-> FALSE]
    /\ pc = [t \in Submitters |-> "idle"]
    /\ cur = [t \in Submitters |-> 0]
    /\ instance_lock = NoThread
    /\ inner = FALSE
    /\ io_handle_lock = NoThread
    /\ io_handle = FALSE
    /\ io_running = FALSE
    /\ park_token = FALSE
    /\ io_pc = "unspawned"
    /\ drop_pc = "live"
    /\ drop_log = <<>>
    /\ destroyed = FALSE
    /\ aborted = FALSE
    /\ new_pc = "create"
    /\ cntl_res = NotRead
    /\ boot_result = NotRead
    /\ installed = [c \in CallbackTypes |-> 0]
    /\ new_result = NotReturned

\* lcb_create; lcb_cntl(LCB_CNTL_DETAILED_ERRCODES);
\* if cntl_res != LCB_SUCCESS { return Err(cntl_res.into()); }
new_cntl(res) ==
    /\ new_pc = "create"
    /\ cntl_res' = res
    /\ IF Failed(res)
         THEN new_pc' = "returned" /\ new_result' = ErrOf(res)
         ELSE new_pc' = "connect" /\ UNCHANGED new_result
    /\ UNCHANGED <<opVars, pc, cur, instance_lock, inner, io_handle_lock,
                   io_handle, ioVars, dropVars, aborted, boot_result, installed>>

\* lcb_connect; lcb_wait; lcb_get_bootstrap_status;
\* if boot_result != LCB_SUCCESS { return Err(boot_result.into()); }
new_connect(res) ==
    /\ new_pc = "connect"
    /\ boot_result' = res
    /\ IF Failed(res)
         THEN new_pc' = "returned" /\ new_result' = ErrOf(res)
         ELSE new_pc' = "install" /\ UNCHANGED new_result
    /\ UNCHANGED <<opVars, pc, cur, instance_lock, inner, io_handle_lock,
                   io_handle, ioVars, dropVars, aborted, cntl_res, installed>>

\* lcb_install_callback3 for LCB_CALLBACK_GET, _STORE and _REMOVE.
new_install_callbacks ==
    /\ new_pc = "install"
    /\ installed' = [c \in CallbackTypes |-> installed[c] + 1]
    /\ new_pc' = "spawn"
    /\ UNCHANGED <<opVars, pc, cur, instance_lock, inner, io_handle_lock,
                   io_handle, ioVars, dropVars, aborted, cntl_res, boot_result,
                   new_result>>

\* Arc::new(Mutex::new(SendPtr { inner: Some(instance) }));
\* Arc::new(AtomicBool::new(true)); thread::Builder::new().name("io").spawn(..)
new_spawn_io ==
    /\ new_pc = "spawn"
    /\ inner' = TRUE
    /\ io_running' = TRUE
    /\ io_pc' = "park"
    /\ new_pc' = "build"
    /\ UNCHANGED <<opVars, pc, cur, instance_lock, io_handle_lock, io_handle,
                   park_token, dropVars, aborted, cntl_res, boot_result,
                   installed, new_result>>

\* Ok(Bucket { instance, io_handle: Mutex::new(Some(handle)), io_running })
new_return ==
    /\ new_pc = "build"
    /\ io_handle' = TRUE
    /\ new_result' = OkBucket
    /\ new_pc' = "returned"
    /\ UNCHANGED <<opVars, pc, cur, instance_lock, inner, io_handle_lock,
                   ioVars, dropVars, aborted, cntl_res, boot_result, installed>>

\* ------------------------------------------------------- specifications
Submit ==
    \/ \E t \in Submitters : \E key \in KeyOf(t) : get(t, key)
    \/ \E t \in Submitters : \E key \in KeyOf(t) : remove(t, key)
    \/ \E t \in Submitters : \E key \in KeyOf(t) : store(t, key)
    \/ \E t \in Submitters : query_n1ql(t)
    \/ \E t \in Submitters : query_view(t)
    \/ \E t \in Submitters : lock_instance(t)
    \/ \E t \in Submitters : engine_submit(t)
    \/ \E t \in Submitters : unpark_io_lock(t)
    \/ \E t \in Submitters : unpark_io(t)

Pump ==
    \/ io_park
    \/ io_park_spurious
    \/ io_check
    \/ io_lock
    \/ io_wait_return

KvCallbacks ==
    \/ \E o \in OpIds, rc \in Statuses, outcome \in Outcomes :
         \E cas \in CasOf(rc) : get_callback(o, rc, cas, outcome)
    \/ \E o \in OpIds, rc \in Statuses, outcome \in Outcomes :
         \E cas \in CasOf(rc) : store_callback(o, rc, cas, outcome)
    \/ \E o \in OpIds, rc \in Statuses : \E cas \in CasOf(rc) : remove_callback(o, rc, cas)

RowCallbacks ==
    \/ \E o \in OpIds, final \in BOOLEAN, valid \in BOOLEAN :
         \E outcome \in Outcomes : n1ql_callback(o, final, valid, outcome)
    \/ \E o \in OpIds, final \in BOOLEAN, valid \in BOOLEAN :
         \E outcome \in Outcomes : view_callback(o, final, valid, outcome)

Consumer == \E o \in OpIds : drop_receiver(o)

Drop ==
    \/ drop_store
    \/ drop_unpark
    \/ drop_take_handle
    \/ drop_join
    \/ drop_lock_instance
    \/ drop_destroy

Next == Submit \/ Pump \/ KvCallbacks \/ RowCallbacks \/ Consumer \/ Drop

Spec == Init /\ [][Next]_vars

\* A workload of get / store / remove on a Bucket that is not dropped.  Every
\* thread keeps running and the engine answers every scheduled command while
\* lcb_wait runs (weak fairness); parking_lot's mutexes are eventually fair,
\* so a thread that keeps asking for a lock gets it (strong fairness).
\* Nothing obliges the application to submit or to drop a future, or park()
\* to return without a token.
SubmitKv ==
    \/ \E t \in Submitters : \E key \in KeyOf(t) : get(t, key)
    \/ \E t \in Submitters : \E key \in KeyOf(t) : remove(t, key)
    \/ \E t \in Submitters : \E key \in KeyOf(t) : store(t, key)
    \/ \E t \in Submitters : lock_instance(t)
    \/ \E t \in Submitters : engine_submit(t)
    \/ \E t \in Submitters : unpark_io_lock(t)
    \/ \E t \in Submitters : unpark_io(t)

SubmitSteps(t) == engine_submit(t) \/ unpark_io(t)

PumpSteps == io_park \/ io_check \/ io_wait_return

NextKv == SubmitKv \/ Pump \/ KvCallbacks \/ Consumer

SpecKv ==
    /\ Init
    /\ [][NextKv]_vars
    /\ \A t \in Submitters : WF_vars(SubmitSteps(t))
    /\ \A t \in Submitters : SF_vars(lock_instance(t)) /\ SF_vars(unpark_io_lock(t))
    /\ WF_vars(PumpSteps)
    /\ SF_vars(io_lock)
    /\ WF_vars(KvCallbacks)

\* A submit method called on a Bucket whose drop has returned (which the
\* borrow checker rules out for safe callers).
submit_after_drop(t, kind) ==
    drop_pc = "done" /\ Begin(t, kind, IF kind \in KvKinds THEN CHOOSE k \in KeyOf(t) : TRUE ELSE NoKey)

NextLate ==
    \/ Next
    \/ \E t \in Submitters, kind \in KvKinds \cup StreamKinds : submit_after_drop(t, kind)

SpecLate == Init /\ [][NextLate]_vars

\* A Bucket that is used and then dropped.  Fairness as in SpecKv; once drop
\* has been entered its thread keeps running (the locks it asks for are free:
\* no submit method is executing and the io thread has ended when it asks for
\* the instance lock), and the engine keeps answering the queries as well.
DropSteps ==
    \/ drop_unpark
    \/ drop_take_handle
    \/ drop_join
    \/ drop_lock_instance
    \/ drop_destroy

SpecShutdown ==
    /\ Init
    /\ [][Next]_vars
    /\ \A t \in Submitters : WF_vars(SubmitSteps(t))
    /\ \A t \in Submitters : SF_vars(lock_instance(t)) /\ SF_vars(unpark_io_lock(t))
    /\ WF_vars(PumpSteps)
    /\ SF_vars(io_lock)
    /\ WF_vars(KvCallbacks)
    /\ WF_vars(RowCallbacks)
    /\ WF_vars(DropSteps)

\* A Bucket on which drop may be run again after it has returned.
NextAgain == Next \/ drop_again

SpecAgain == Init /\ [][NextAgain]_vars

\* The life of a Bucket from the call of Bucket::new on.
New ==
    \/ \E res \in CntlStatuses : new_cntl(res)
    \/ \E res \in BootStatuses : new_connect(res)
    \/ new_install_callbacks
    \/ new_spawn_io
    \/ new_return

NextNew == New \/ Next

SpecNew == InitNew /\ [][NextNew]_vars

\* ---------------------------------------------------------------- claims
Last(s) == s[Len(s)]
IsPrefix(s, t) == Len(s) <= Len(t) /\ \A i \in 1..Len(s) : s[i] = t[i]

\* The threads that are inside a call on the engine handle.
InEngineCall ==
    {t \in Submitters : pc[t] = "call"}
        \cup (IF io_pc = "wait" THEN {IoThread} ELSE {})
        \cup (IF drop_pc = "destroy" THEN {DropThread} ELSE {})

\* C1: at most one thread is inside an engine call (a submission, the io
\* thread's lcb_wait, or lcb_destroy), and that thread holds the instance lock.
C1_ExclusiveEngineAccess ==
    /\ Cardinality(InEngineCall) <= 1
    /\ \A th \in InEngineCall : instance_lock = th

\* A submitter waits for the instance lock while the io thread dispatches.
C1_Witness ==
    io_pc = "wait" /\ instance_lock = IoThread /\ \E t \in Submitters : pc[t] = "lock"

ShutdownOrder == <<"clear_flag", "wake", "join", "destroy">>

\* C2: Drop clears the flag, wakes the io thread, joins it and destroys the
\* handle, in that order; the handle is destroyed only once the io thread has
\* stopped.
C2_ShutdownOrder ==
    /\ IsPrefix(drop_log, ShutdownOrder)
    /\ (destroyed \/ drop_pc = "destroy") => io_pc = "stopped"

\* Drop has run to its end.
C2_Witness ==
    destroyed /\ drop_log = ShutdownOrder /\ io_pc = "stopped"

\* C3: every submitted get / store / remove is eventually completed by its
\* callback, and its handle, if it still exists, holds the result.
C3_AllResolve ==
    \A o \in OpIds :
        (opKind[o] # "none") ~> (cookie[o] = "released" /\ (rxAlive[o] => Len(chan[o]) = 1))

\* Two commands were scheduled before the io thread woke, and both handles
\* have been resolved.
C3_Witness ==
    /\ \A o \in 1..2 : cookie[o] = "released" /\ Len(chan[o]) = 1
    /\ \A t \in Submitters : pc[t] = "idle"

\* C4: a single-shot cookie is passed to at most one callback invocation,
\* which writes at most one result and releases the bridge; the engine never
\* holds a released single-shot cookie.
C4_SingleShotOnce ==
    \A o \in OpIds : opKind[o] \in KvKinds =>
        /\ Len(invoked[o]) <= 1
        /\ Len(chan[o]) <= Len(invoked[o])
        /\ (o \in queued => cookie[o] = "armed" /\ invoked[o] = <<>>)
        /\ (Len(invoked[o]) = 1 =>
               /\ cookie[o] = "released"
               /\ (invoked[o][1].rx => Len(chan[o]) = 1))

\* A single-shot callback has fired and completed its handle.
C4_Witness ==
    \E o \in OpIds :
        opKind[o] \in KvKinds /\ Len(invoked[o]) = 1 /\ Len(chan[o]) = 1 /\ cookie[o] = "released"

\* C5: once Drop has returned, no operation is left outstanding (scheduled,
\* its callback not fired).
C5_NoneLeftPending ==
    drop_pc = "done" => \A o \in OpIds : cookie[o] # "armed"

ExpectedEvents(resps) ==
    [i \in 1..Len(resps) |-> IF resps[i].final THEN Meta ELSE Row(i)]

\* C6: once the engine has invoked the row callback with the final flag for a
\* query whose stream exists, the stream holds one row event per non-final
\* invocation, in order, followed by one Meta event.
C6_RowsThenMeta ==
    \A o \in OpIds :
        (opKind[o] \in StreamKinds /\ invoked[o] # <<>> /\ Last(invoked[o]).final
            /\ Last(invoked[o]).rx)
        => chan[o] = ExpectedEvents(invoked[o])

\* C7: a callback that received an undecodable payload (its receiver
\* existing) leaves the process and the io thread running and resolves the
\* handle with an error.
C7_DecodingError ==
    \A o \in OpIds :
        (invoked[o] # <<>> /\ ~Last(invoked[o]).valid /\ Last(invoked[o]).rx)
        => /\ ~aborted
           /\ io_pc # "panicked"
           /\ chan[o] # <<>>
           /\ Last(chan[o]).tag = "Error"

\* C8: a callback that wrote into a bridge whose receiver is gone leaves the
\* process and the io thread running, and the bridge is released, or re-armed
\* when the final flag is clear.
C8_SilentWrite ==
    \A o \in OpIds :
        (invoked[o] # <<>> /\ Last(invoked[o]).valid /\ ~Last(invoked[o]).rx)
        => /\ ~aborted
           /\ io_pc # "panicked"
           /\ cookie[o] = IF Last(invoked[o]).final THEN "released" ELSE "armed"

\* C9: no submitter waits for the instance lock while the io thread holds it
\* inside lcb_wait with responses outstanding.
C9_NoLockAcrossWait ==
    ~(/\ io_pc = "wait"
      /\ instance_lock = IoThread
      /\ queued # {}
      /\ \E t \in Submitters : pc[t] = "lock")

\* C10: once Drop has returned, no thread gets past the unwrap of the engine
\* handle: the instance lock is free, nobody is inside or past the engine
\* submission call, and a command begun since is neither scheduled nor armed.
C10_RejectedAfterShutdown ==
    drop_pc = "done" =>
        /\ instance_lock = NoThread
        /\ \A t \in Submitters :
              /\ pc[t] \in {"idle", "lock", "panicked"}
              /\ pc[t] = "lock" => (cookie[cur[t]] = "boxed" /\ cur[t] \notin queued)
        /\ \A o \in OpIds : (cookie[o] = "released" /\ invoked[o] = <<>>) =>
              (o \notin queued /\ ~rxAlive[o] /\ chan[o] = <<>>)

\* A submit method called after Drop has panicked on the unwrap.
C10_Witness ==
    drop_pc = "done" /\ \E t \in Submitters : pc[t] = "panicked"

\* C12: Bucket::new returns Err with the failing status when lcb_cntl or the
\* bootstrap fails, and then no io thread was spawned, no callback installed
\* and no command is ever submitted; each callback is installed at most once,
\* and once before the io thread exists and before Ok is returned.
C12_ConnectAllOrNothing ==
    /\ (new_pc = "returned" /\ cntl_res # "LCB_SUCCESS") => new_result = ErrOf(cntl_res)
    /\ (new_pc = "returned" /\ boot_result \notin {NotRead, "LCB_SUCCESS"})
           => new_result = ErrOf(boot_result)
    /\ new_result # OkBucket =>
           /\ \A o \in OpIds : opKind[o] = "none" /\ cookie[o] = "none"
           /\ queued = {}
           /\ \A t \in Submitters : pc[t] = "idle"
    /\ new_result.tag = "Err" =>
           /\ io_pc = "unspawned"
           /\ ~inner /\ ~io_handle
           /\ \A c \in CallbackTypes : installed[c] = 0
    /\ \A c \in CallbackTypes : installed[c] <= 1
    /\ (io_pc # "unspawned" \/ new_result = OkBucket) =>
           \A c \in CallbackTypes : installed[c] = 1
    /\ new_result = OkBucket => io_pc # "unspawned"

\* The bootstrap failed after the control setting was applied, and Bucket::new
\* has returned the error.
C12_Witness ==
    /\ new_pc = "returned"
    /\ cntl_res = "LCB_SUCCESS"
    /\ boot_result = "LCB_AUTH_ERROR"
    /\ new_result = ErrOf("LCB_AUTH_ERROR")

\* C11: a store whose callback fired with LCB_SUCCESS resolves with a document
\* carrying the echoed key and the response's version token; one whose
\* callback fired with another status resolves with an error carrying exactly
\* that status.
C11_StoreResult ==
    \A o \in OpIds :
        (opKind[o] = "store" /\ invoked[o] # <<>> /\ invoked[o][1].rx) =>
            /\ Len(chan[o]) = 1
            /\ IF invoked[o][1].rc = "LCB_SUCCESS"
                 THEN /\ chan[o][1].tag = "Document"
                      /\ chan[o][1].id = opKey[o]
                      /\ chan[o][1].cas = invoked[o][1].cas
                 ELSE /\ chan[o][1].tag = "Error"
                      /\ chan[o][1].rc = invoked[o][1].rc

\* One store was answered with success and resolved with its document,
\* another with "key exists" and resolved with that error.
C11_Witness ==
    \E o, p \in OpIds :
        /\ opKind[o] = "store" /\ opKind[p] = "store"
        /\ chan[o] = <<Document(opKey[o], "c1")>>
        /\ chan[p] = <<Error("LCB_KEY_EEXISTS")>>

DestroyCount == Cardinality({i \in 1..Len(drop_log) : drop_log[i] = "destroy"})

\* C13: lcb_destroy is called at most once on the handle, also when drop is
\* run again; the handle is out of the wrapper when lcb_destroy is called and
\* from then on.
C13_DestroyedAtMostOnce ==
    /\ DestroyCount <= 1
    /\ (drop_pc = "destroy" \/ destroyed) => ~inner

\* A second run of drop on the destroyed Bucket has panicked.
C13_Witness ==
    destroyed /\ DestroyCount = 1 /\ DropCount = 2 /\ drop_pc = "panicked"

\* The response just passed to the callback of o reports a failure: a status
\* other than success, or a payload that does not decode.
FailedResponse(resp) == ~resp.valid \/ resp.rc \notin {"LCB_SUCCESS", NoStatus}

\* C14: a callback invocation that reports the failure of one operation leaves
\* the bridge of every other operation as it was, and every other operation
\* still scheduled can still be answered: the process runs and the io thread
\* stays inside its dispatch call.
C14_FrameOfCallback ==
    [][\A o \in OpIds :
          (invoked'[o] # invoked[o] /\ FailedResponse(Last(invoked'[o]))) =>
              \A p \in OpIds \ {o} :
                  /\ cookie'[p] = cookie[p]
                  /\ chan'[p] = chan[p]
                  /\ rxAlive'[p] = rxAlive[p]
                  /\ invoked'[p] = invoked[p]
                  /\ (p \in queued') = (p \in queued)
                  /\ p \in queued => (~aborted' /\ io_pc' = "wait")]_vars

\* The join in drop has returned Ok: the io thread left its loop.
JoinedOk == drop_pc \in {"lock", "destroy", "done"} /\ io_pc = "stopped"
\* A dispatch call did not return: a callback panicked inside lcb_wait.
DispatchDidNotReturn == aborted \/ io_pc = "panicked"

\* C15: once drop has cleared the flag and unparked the io thread, the io
\* thread leaves its loop and the join returns, provided every dispatch call
\* returns; the io thread takes the lock only after it has read the flag as
\* set on that wake, dispatches only after taking the lock, and ends on a wake
\* where it reads the flag as cleared.
C15_ShutdownTerminates ==
    /\ (drop_pc = "take") ~> (JoinedOk \/ DispatchDidNotReturn)
    /\ [][(io_pc' = "lock" /\ io_pc # "lock") => (io_pc = "check" /\ io_running)]_vars
    /\ [][(io_pc' = "wait" /\ io_pc # "wait") => io_pc = "lock"]_vars
    /\ [][(io_pc = "check" /\ ~io_running /\ io_pc' # io_pc) => io_pc' = "stopped"]_vars

\* The io thread is inside a dispatch call with a response outstanding when
\* drop has cleared the flag and unparked it.
C15_Witness ==
    drop_pc = "take" /\ io_pc = "wait" /\ queued # {} /\ park_token

\* The io thread will run a dispatch call without a further wake-up: it is
\* inside lcb_wait, about to take the lock, or about to read a flag that is set.
AboutToDispatch == (io_pc = "check" /\ io_running) \/ io_pc \in {"lock", "wait"}

\* The submit method that scheduled o has not executed its unpark yet.
UnparkOwed(o) == \E t \in Submitters : cur[t] = o /\ pc[t] \in {"unpark", "unparking"}

\* C16: for every command scheduled in the engine whose callback has not
\* fired, the io thread is dispatching or about to dispatch, or a wake token
\* is pending, or the submitter of the command has still to unpark.
C16_NoLostWakeup ==
    \A o \in queued : AboutToDispatch \/ park_token \/ UnparkOwed(o)

\* The result that answers response resp to the command o.
ExpectedResult(o, resp) ==
    IF opKind[o] \in StreamKinds
      THEN (IF resp.final THEN Meta ELSE Row(resp.row))
      ELSE IF resp.rc # "LCB_SUCCESS" THEN Error(resp.rc)
      ELSE IF opKind[o] = "remove" THEN Unit
      ELSE Document(opKey[o], resp.cas)

\* C17: whatever the order of the responses, the results in the channel of
\* an operation are the answers to the responses the engine gave to that
\* operation's own command, in order; nothing else is ever written to it.
C17_OwnResponseOnly ==
    \A o \in OpIds :
        /\ Len(chan[o]) <= Len(invoked[o])
        /\ \A i \in 1..Len(chan[o]) : chan[o][i] = ExpectedResult(o, invoked[o][i])

\* The command created second has been answered and its handle resolved with
\* its own document, while the command created first is still outstanding.
C17_Witness ==
    /\ opKind[1] \in {"get", "store"} /\ 1 \in queued /\ invoked[1] = <<>> /\ chan[1] = <<>>
    /\ opKind[2] \in {"get", "store"} /\ opKey[2] # opKey[1]
    /\ chan[2] = <<Document(opKey[2], "c1")>>

\* C18: in a running process, after a row callback invocation the engine still
\* owns the bridge (the cookie is armed, the Sender alive and the stream open)
\* exactly when the final flag of that response was clear.
C18_RearmedIffNotFinal ==
    \A o \in OpIds :
        (opKind[o] \in StreamKinds /\ invoked[o] # <<>> /\ ~aborted) =>
            ((cookie[o] = "armed") <=> ~Last(invoked[o]).final)

\* C19: a thread that reads the engine handle under the instance lock finds
\* it, and unpark_io finds the io thread's handle: no submitter and no drop has
\* panicked, the io thread has not panicked outside a callback, the engine
\* handle is gone only once the io thread was joined, and the io thread's handle
\* only once the shutdown wake was issued.
C19_UnwrapNeverFails ==
    /\ \A t \in Submitters : pc[t] # "panicked"
    /\ (\E t \in Submitters : pc[t] \in {"lock", "call"}) => inner
    /\ (\E t \in Submitters : pc[t] \in {"unpark", "unparking"}) => io_handle
    /\ io_pc \in {"check", "lock", "wait"} => inner
    /\ drop_pc = "unpark" => io_handle
    /\ io_pc = "panicked" => \E o \in OpIds : invoked[o] # <<>> /\ cookie[o] = "released"
    /\ drop_pc = "panicked" => io_pc = "panicked"
    /\ ~inner => (io_pc = "stopped" /\ Len(drop_log) >= 3 /\ drop_log[3] = "join")
    /\ ~io_handle => (Len(drop_log) >= 2 /\ drop_log[2] = "wake")

\* Drop has returned after operations were answered: both options are empty.
C19_Witness ==
    /\ drop_pc = "done" /\ ~inner /\ ~io_handle
    /\ \E o \in OpIds : Len(chan[o]) = 1

Threads == Submitters \cup {IoThread, DropThread}

\* th is blocked in, or about to call, instance.lock() / io_handle.lock().
WaitsInstance(th) ==
    \/ th \in Submitters /\ pc[th] = "lock"
    \/ th = IoThread /\ io_pc = "lock"
    \/ th = DropThread /\ drop_pc = "lock"
WaitsHandle(th) ==
    \/ th \in Submitters /\ pc[th] = "unpark"
    \/ th = DropThread /\ drop_pc \in {"unpark", "take"}

\* C20: no thread asks for the io_handle lock while it holds the instance
\* lock; a thread that asks for the instance lock while it holds the io_handle
\* lock (drop) is not waited for by the holder of the instance lock; the io
\* thread never holds the io_handle lock; and while drop holds the io_handle
\* lock in join, only the io thread may hold the instance lock.
C20_NoLockCycle ==
    /\ \A th \in Threads : ~(instance_lock = th /\ (WaitsHandle(th) \/ io_handle_lock = th)
                                 /\ th # DropThread)
    /\ \A a, b \in Threads :
           ~(/\ io_handle_lock = a /\ WaitsInstance(a)
             /\ instance_lock = b /\ WaitsHandle(b))
    /\ io_handle_lock # IoThread
    /\ drop_pc = "join" =>
           /\ io_handle_lock = DropThread
           /\ instance_lock \in {NoThread, IoThread}
           /\ \A t \in Submitters : pc[t] \notin {"lock", "call", "unpark", "unparking"}
    /\ drop_pc = "lock" => instance_lock = NoThread

\* drop holds the io_handle lock inside join while the io thread holds the
\* instance lock inside a dispatch call.
C20_Witness ==
    /\ drop_pc = "join" /\ io_handle_lock = DropThread
    /\ io_pc = "wait" /\ instance_lock = IoThread /\ queued # {}

====
